---- MODULE Spec2Model ----
(***************************************************************************)
(* Model of excel_graph_parser/graph_parser.py: class ExcelImageParser.     *)
(*                                                                         *)
(* Python strings that the code takes apart (range references, sheet       *)
(* names, cell ranges) are sequences of one-character strings, so that     *)
(* str.replace and str.split are computed as Python computes them.         *)
(* Strings that are only built and compared (chart titles, catalog keys,   *)
(* table keys) are TLA+ strings.  An optional value (None or a value) is   *)
(* a sequence of length 0 or 1.                                            *)
(***************************************************************************)
EXTENDS Integers, Sequences, FiniteSets, TLC

\* ------------------------------------------------------------------ bounds
MaxSheets == 2
MaxCharts == 2
MaxSeries == 2
MaxRows == 3

\* ----------------------------------------------------------- Python strings
None == <<>>
Some(v) == <<v>>

\* truth value of an optional string: None and "" are false
Truthy(v) == v # None /\ v # Some("")

\* s[i..] starts with pat
StartsWithAt(s, i, pat) ==
  /\ i + Len(pat) - 1 <= Len(s)
  /\ \A k \in 1..Len(pat) : s[i + k - 1] = pat[k]

RECURSIVE ReplaceFrom(_, _, _, _)
ReplaceFrom(s, i, old, new) ==
  IF i > Len(s) THEN <<>>
  ELSE IF StartsWithAt(s, i, old)
       THEN new \o ReplaceFrom(s, i + Len(old), old, new)
       ELSE <<s[i]>> \o ReplaceFrom(s, i + 1, old, new)

\* str.replace(old, new) for a non-empty old: every non-overlapping
\* occurrence, left to right
Replace(s, old, new) == ReplaceFrom(s, 1, old, new)

RECURSIVE SplitFrom(_, _, _, _)
SplitFrom(s, i, sep, cur) ==
  IF i > Len(s) THEN <<cur>>
  ELSE IF s[i] = sep
       THEN <<cur>> \o SplitFrom(s, i + 1, sep, <<>>)
       ELSE SplitFrom(s, i + 1, sep, Append(cur, s[i]))

\* str.split(sep) for a one-character sep
Split(s, sep) == SplitFrom(s, 1, sep, <<>>)

\* sep in s
Contains(s, ch) == \E i \in 1..Len(s) : s[i] = ch

Digit(d) ==
  CASE d = 0 -> "0" [] d = 1 -> "1" [] d = 2 -> "2" [] d = 3 -> "3"
    [] d = 4 -> "4" [] d = 5 -> "5" [] d = 6 -> "6" [] d = 7 -> "7"
    [] d = 8 -> "8" [] d = 9 -> "9"

RECURSIVE IntToStr(_)
\* the decimal text an f-string gives a non-negative int
IntToStr(n) ==
  IF n < 10 THEN Digit(n) ELSE IntToStr(n \div 10) \o Digit(n % 10)

\* ------------------------------------------------- references of the charts
Ref_Sheet1_A1A3 == <<"S", "h", "e", "e", "t", "1", "!", "$", "A", "$", "1", ":", "$", "A", "$", "3">>
Ref_Sheet1_B1B3 == <<"S", "h", "e", "e", "t", "1", "!", "$", "B", "$", "1", ":", "$", "B", "$", "3">>
Ref_Union == <<"S", "h", "e", "e", "t", "1", "!", "$", "A", "$", "1", ":", "$", "A", "$", "3", ",", "S", "h", "e", "e", "t", "1", "!", "$", "A", "$", "5", ":", "$", "A", "$", "7">>
Ref_Quoted == <<"(", "'", "M", "y", " ", "S", "h", "e", "e", "t", "'", "!", "$", "A", "$", "1", ":", "$", "B", "$", "2", ")">>
Ref_Gone == <<"G", "o", "n", "e", "!", "$", "A", "$", "1", ":", "$", "A", "$", "3">>
Str_Sheet1 == <<"S", "h", "e", "e", "t", "1">>
Str_MySheet == <<"M", "y", " ", "S", "h", "e", "e", "t">>
Str_A1A7 == <<"A", "1", ":", "A", "7">>

\* ------------------------------------------- range resolution (lines 242-280)
StripWrapping(s) ==
  Replace(Replace(Replace(s, <<"(">>, <<>>), <<")">>, <<>>), <<"'">>, <<>>)

\* chart_sheet_name of either reference: .split(sep="!")[0] after the strips
SheetNameOf(input_range) == Split(StripWrapping(input_range), "!")[1]

\* the conditional expression of lines 258 and 280
CollapseUnion(rng) ==
  IF Contains(rng, ",")
  THEN LET parts == Split(rng, ",")
       IN parts[1] \o <<":">> \o parts[Len(parts)]
  ELSE rng

\* chart_cat_range: sheet prefix and "$" removed, then the union collapsed
ResolveCatRange(input_cat_range) ==
  LET sheet == SheetNameOf(input_cat_range)
      body == Replace(Replace(StripWrapping(input_cat_range),
                              sheet \o <<"!">>, <<>>), <<"$">>, <<>>)
  IN CollapseUnion(body)

\* chart_val_range: sheet prefix removed ("$" is kept), then the union collapsed
ResolveValRange(input_val_range) ==
  LET sheet == SheetNameOf(input_val_range)
      body == Replace(StripWrapping(input_val_range), sheet \o <<"!">>, <<>>)
  IN CollapseUnion(body)

\* ------------------------------------------------ the evaluated workbook
\* Sheets of the evaluated workbook that hold chart data.  No sheet has an
\* empty title.
WbSheetNames == {Str_Sheet1, Str_MySheet}

ColLetters == {"A", "B"}
RowDigits == {"1", "2", "3", "4", "5", "6", "7", "8", "9"}
ColIndex(ch) == IF ch = "A" THEN 1 ELSE 2
RowIndex(ch) == CHOOSE d \in 1..9 : Digit(d) = ch

\* value of the cell at (col, row) of a sheet of the evaluated workbook
CellValue(sheet, col, row) ==
  (IF sheet = Str_Sheet1 THEN 100 ELSE 200) + 10 * col + row

BadCell == [ok |-> FALSE, col |-> 0, row |-> 0, next |-> 0]

\* one cell coordinate "[$]col[$]row" starting at position p (single-letter
\* columns and single-digit rows of the grid above)
CellAt(s, p) ==
  LET p1 == IF p <= Len(s) /\ s[p] = "$" THEN p + 1 ELSE p
  IN IF p1 <= Len(s) /\ s[p1] \in ColLetters
     THEN LET p2 == IF p1 + 1 <= Len(s) /\ s[p1 + 1] = "$" THEN p1 + 2 ELSE p1 + 1
          IN IF p2 <= Len(s) /\ s[p2] \in RowDigits
             THEN [ok |-> TRUE, col |-> ColIndex(s[p1]), row |-> RowIndex(s[p2]),
                   next |-> p2 + 1]
             ELSE BadCell
     ELSE BadCell

\* range_boundaries of the worksheet: "cell" or "cell:cell", nothing else
ParseRange(rng) ==
  LET a == CellAt(rng, 1)
  IN IF ~a.ok THEN [ok |-> FALSE, single |-> FALSE, from |-> a, to |-> a]
     ELSE IF a.next > Len(rng) THEN [ok |-> TRUE, single |-> TRUE, from |-> a, to |-> a]
     ELSE IF rng[a.next] # ":" THEN [ok |-> FALSE, single |-> FALSE, from |-> a, to |-> a]
     ELSE LET b == CellAt(rng, a.next + 1)
          IN [ok |-> b.ok /\ b.next > Len(rng), single |-> FALSE, from |-> a, to |-> b]

NoError == [type |-> "", line |-> 0, arg |-> ""]
Raise(type, line) == [type |-> type, line |-> line, arg |-> ""]
RaiseMsg(type, line, arg) == [type |-> type, line |-> line, arg |-> arg]

\* wb[chart_sheet_name][range] and the two nested loops that flatten it
\* (lines 260-263 and 282-285); `line` is the line of the lookup
Dereference(sheet_name, rng, line) ==
  IF sheet_name \notin WbSheetNames
  THEN [err |-> Raise("KeyError", line), data |-> <<>>]
  ELSE LET b == ParseRange(rng)
       IN IF ~b.ok THEN [err |-> Raise("ValueError", line), data |-> <<>>]
          ELSE IF b.single
          THEN \* a single coordinate gives one Cell, which the loop cannot iterate
               [err |-> Raise("TypeError", line), data |-> <<>>]
          ELSE LET nr == IF b.to.row >= b.from.row THEN b.to.row - b.from.row + 1 ELSE 0
                   nc == IF b.to.col >= b.from.col THEN b.to.col - b.from.col + 1 ELSE 0
               IN [err |-> NoError,
                   data |-> [k \in 1..(nr * nc) |->
                               CellValue(sheet_name,
                                         b.from.col + ((k - 1) % nc),
                                         b.from.row + ((k - 1) \div nc))]]

\* ------------------------------------------------------- charts and series
ALLOWED_FIGURE_TYPES == <<"lineChart", "scatterChart", "barChart", "pieChart">>

InList(x, list) == \E k \in 1..Len(list) : list[k] = x

\* ''.join(runs) of a rich-text paragraph (line 50)
RECURSIVE JoinRuns(_)
JoinRuns(runs) ==
  IF runs = <<>> THEN "" ELSE Head(runs) \o JoinRuns(Tail(runs))

\* the references a series can carry: category side (cat or xVal) ...
CatSources ==
  { None,
    Some([kind |-> "strRef", f |-> Ref_Sheet1_A1A3, formatCode |-> ""]),
    Some([kind |-> "numRef", f |-> Ref_Union, formatCode |-> "General"]),
    Some([kind |-> "strRef", f |-> Ref_Gone, formatCode |-> ""]) }

\* ... and value side (val or yVal), always a numRef when present
ValSources ==
  { None,
    Some([kind |-> "numRef", f |-> Ref_Sheet1_B1B3, formatCode |-> "0.00"]),
    Some([kind |-> "numRef", f |-> Ref_Union, formatCode |-> "General"]),
    Some([kind |-> "numRef", f |-> Ref_Gone, formatCode |-> "General"]) }

GoodCat == Some([kind |-> "strRef", f |-> Ref_Sheet1_A1A3, formatCode |-> ""])
GoodVal == Some([kind |-> "numRef", f |-> Ref_Sheet1_B1B3, formatCode |-> "0.00"])

\* <<category side, value side>> of a series: every category source with a
\* readable value reference, every value source with a readable category
\* reference, and neither
SeriesKinds ==
  (CatSources \X {GoodVal}) \cup ({GoodCat} \X ValSources) \cup {<<None, None>>}

\* a series object of a chart of type tagname whose category side is x and
\* whose value side is y
MkSeries(tagname, x, y) ==
  IF tagname = "scatterChart"
  THEN [cat |-> None, val |-> None, xVal |-> x, yVal |-> y, tx |-> None]
  ELSE [cat |-> x, val |-> y, xVal |-> None, yVal |-> None, tx |-> Some("s")]

MkChart(tagname, title, kinds) ==
  [tagname |-> tagname,
   title |-> title,
   x_axis_title |-> IF tagname = "pieChart" THEN None ELSE Some(<<"X", "x">>),
   y_axis_title |-> None,
   series |-> [k \in 1..Len(kinds) |-> MkSeries(tagname, kinds[k][1], kinds[k][2])]]

\* ------------------------------------------- _parse_chart_data, per series
\* the locals of _parse_chart_data as line 213-214 leave them
InitLocals ==
  [input_cat_range |-> <<>>, input_cat_format |-> None,
   input_val_range |-> <<>>, input_val_format |-> None,
   chart_sheet_name |-> <<>>, chart_cat_range |-> <<>>, chart_val_range |-> <<>>,
   cat_data |-> <<>>, val_data |-> <<>>]

NormalizeFormat(fmt) == IF fmt = Some("General") THEN None ELSE fmt

\* lines 216-240: the references and formats of one series, the category
\* reference and format carried over from the previous iteration when the
\* series has none
SeriesSources(chart_type, ser, loc) ==
  LET scatter == chart_type = "scatterChart"
      x == IF scatter THEN ser.xVal ELSE ser.cat
      y == IF scatter THEN ser.yVal ELSE ser.val
      cat_range == IF x # None THEN x[1].f ELSE loc.input_cat_range
      cat_format == IF x # None /\ x[1].kind = "numRef"
                    THEN Some(x[1].formatCode) ELSE loc.input_cat_format
      loc1 == [loc EXCEPT !.input_cat_range = cat_range,
                          !.input_cat_format = cat_format]
  IN IF y = None
     THEN \* series.val (series.yVal) is None: None has no numRef
          [err |-> Raise("AttributeError", IF scatter THEN 224 ELSE 236),
           loc |-> loc1]
     ELSE [err |-> NoError,
           loc |-> [loc1 EXCEPT !.input_val_range = y[1].f,
                                !.input_cat_format = NormalizeFormat(cat_format),
                                !.input_val_format =
                                    NormalizeFormat(Some(y[1].formatCode))]]

\* line 295, series.append(ser): the loop of line 215 has bound the name
\* `series` to the chart's series object, which has no append method, so
\* the record is not added to the list of line 197
SeriesAppend(series_list, ser) ==
  [err |-> Raise("AttributeError", 295), series_list |-> series_list]

Failed(err, loc, series_list) ==
  [err |-> err, loc |-> loc, series_list |-> series_list]

\* lines 287-295: the series record, and its append
BuildRecord(ser, loc, series_list) ==
  LET app == SeriesAppend(series_list,
                          [category_axis_data |-> loc.cat_data,
                           value_axis_data |-> loc.val_data,
                           category_value_format |-> loc.input_cat_format,
                           values_value_format |-> loc.input_val_format,
                           series_name |-> IF ser.tx # None /\ Truthy(ser.tx)
                                           THEN ser.tx ELSE None])
  IN [err |-> app.err, loc |-> loc, series_list |-> app.series_list]

\* lines 281-285, given what wb[chart_sheet_name][chart_val_range] gave
ReadValues(val, ser, loc, series_list) ==
  IF val.err # NoError
  THEN Failed(val.err, loc, series_list)
  ELSE BuildRecord(ser, [loc EXCEPT !.val_data = val.data], series_list)

\* lines 265-285: value_axis_data
ValueAxisData(ser, loc, series_list) ==
  ReadValues(Dereference(SheetNameOf(loc.input_val_range),
                         ResolveValRange(loc.input_val_range), 282),
             ser,
             [loc EXCEPT !.chart_sheet_name = SheetNameOf(loc.input_val_range),
                         !.chart_val_range = ResolveValRange(loc.input_val_range),
                         !.val_data = <<>>],
             series_list)

\* lines 259-263, given what wb[chart_sheet_name][chart_cat_range] gave
ReadCategories(cat, ser, loc, series_list) ==
  IF cat.err # NoError
  THEN Failed(cat.err, loc, series_list)
  ELSE ValueAxisData(ser, [loc EXCEPT !.cat_data = cat.data], series_list)

\* lines 242-263: category_axis_data
CategoryAxisData(ser, loc, series_list) ==
  ReadCategories(Dereference(SheetNameOf(loc.input_cat_range),
                             ResolveCatRange(loc.input_cat_range), 260),
                 ser,
                 [loc EXCEPT !.chart_sheet_name = SheetNameOf(loc.input_cat_range),
                             !.chart_cat_range = ResolveCatRange(loc.input_cat_range),
                             !.cat_data = <<>>],
                 series_list)

\* lines 242-295, given the sources lines 216-240 found
ResolveSeries(src, ser, series_list) ==
  IF src.err # NoError
  THEN Failed(src.err, src.loc, series_list)
  ELSE CategoryAxisData(ser, src.loc, series_list)

\* one iteration that goes on to the next series when the value reference
\* is absent or cannot be read, instead of raising
ParseSeriesSkipping(chart_type, ser, loc, series_list) ==
  LET r == ResolveSeries(SeriesSources(chart_type, ser, loc), ser, series_list)
  IN IF r.err.line \in {224, 236, 282} THEN [r EXCEPT !.err = NoError] ELSE r

\* lines 215-295: one iteration of the series loop
ParseSeries(chart_type, ser, loc, series_list) ==
  ResolveSeries(SeriesSources(chart_type, ser, loc), ser, series_list)

\* lines 297-305
ChartData(chart_title, chart, series_list) ==
  [chart_title |-> chart_title,
   chart_type |-> chart.tagname,
   x_axis_title |-> IF chart.tagname # "pieChart" /\ chart.x_axis_title # None
                    THEN Some(chart.x_axis_title[1][Len(chart.x_axis_title[1])])
                    ELSE None,
   y_axis_title |-> IF chart.tagname # "pieChart" /\ chart.y_axis_title # None
                    THEN Some(chart.y_axis_title[1][Len(chart.y_axis_title[1])])
                    ELSE None,
   series |-> series_list]

\* _create_plotly_figure: one trace per series; the line, bar and scatter
\* layouts read chart_data["series"][0]
CreatePlotlyFigure(chart_data) ==
  IF chart_data.chart_type # "pieChart" /\ chart_data.series = <<>>
  THEN [err |-> Raise("IndexError",
                      CASE chart_data.chart_type = "lineChart" -> 318
                        [] chart_data.chart_type = "barChart" -> 328
                        [] OTHER -> 344),
        fig |-> None]
  ELSE [err |-> NoError,
        fig |-> Some([title_text |-> chart_data.chart_title,
                      traces |-> Len(chart_data.series)])]

\* ------------------------------------------------ input and output tables
NameCells == {None, Some(""), Some("a"), Some("b")}

\* a table row (columns 1-4 of a sheet row) with the given name cell
Row(name) ==
  [name |-> name,
   unit |-> IF name = Some("b") THEN Some("m") ELSE None,
   description |-> Some("d"),
   default |-> Some("1")]

RECURSIVE InputCellsFrom(_, _)
InputCellsFrom(rows, k) ==
  IF k > Len(rows) THEN <<>>
  ELSE (IF Truthy(rows[k].name)
        THEN << [name |-> rows[k].name[1],
                 unit |-> IF Truthy(rows[k].unit) THEN rows[k].unit[1] ELSE "",
                 description |-> rows[k].description,
                 default |-> rows[k].default,
                 key |-> "input_" \o IntToStr(k - 1)] >>
        ELSE <<>>) \o InputCellsFrom(rows, k + 1)

RECURSIVE InputCellsRenumbered(_, _, _)
InputCellsRenumbered(rows, k, n) ==
  IF k > Len(rows) THEN <<>>
  ELSE IF Truthy(rows[k].name)
       THEN << [name |-> rows[k].name[1],
                unit |-> IF Truthy(rows[k].unit) THEN rows[k].unit[1] ELSE "",
                description |-> rows[k].description,
                default |-> rows[k].default,
                key |-> "input_" \o IntToStr(n)] >>
            \o InputCellsRenumbered(rows, k + 1, n + 1)
       ELSE InputCellsRenumbered(rows, k + 1, n)

\* get_input_cells with the key counted over the included rows only
GetInputCellsCountingIncluded(rows) == InputCellsRenumbered(rows, 1, 0)

\* get_input_cells: enumerate() numbers every row from row 2 on, from 0
GetInputCells(rows) == InputCellsFrom(rows, 1)

RECURSIVE OutputsFrom(_, _, _)
OutputsFrom(rows, values, k) ==
  IF k > Len(rows) THEN [err |-> NoError, outputs |-> <<>>]
  ELSE IF ~Truthy(rows[k].name) THEN OutputsFrom(rows, values, k + 1)
  ELSE IF rows[k].name[1] \notin DOMAIN values
  THEN [err |-> Raise("KeyError", 142), outputs |-> <<>>]
  ELSE LET rest == OutputsFrom(rows, values, k + 1)
       IN [err |-> rest.err,
           outputs |->
             IF rest.err # NoError THEN <<>>
             ELSE << [name |-> rows[k].name[1],
                      unit |-> IF Truthy(rows[k].unit) THEN rows[k].unit[1] ELSE "",
                      description |-> rows[k].description,
                      key |-> "output_" \o IntToStr(k - 1),
                      value |-> values[rows[k].name[1]],
                      type |-> "<class 'str'>"] >> \o rest.outputs]

\* lines 129-146 of get_outputs, after the evaluation
Outputs(rows, values) ==
  IF DOMAIN values = {} THEN [err |-> NoError, outputs |-> <<>>]
  ELSE OutputsFrom(rows, values, 1)

\* get_evaluated_spreadsheet: the row-count check of lines 97-102, made only
\* without a SpreadsheetCalculation and outside the app
EvaluatedSpreadsheet(has_calc, app, input_rows, fields) ==
  IF ~has_calc /\ ~app /\ Len(GetInputCells(input_rows)) # fields
  THEN Raise("UserError", 99)
  ELSE NoError

\* ------------------------------------------------------------------ state
VARIABLES
  workbook,        \* the loaded file: sheets with their charts, the two tables
  has_calculation, \* a SpreadsheetCalculation was given to __init__
  from_app,        \* self.from_app
  n_fields,        \* len(self.params.preview_step.fields_table)
  pc,              \* where the program is
  si, cj,          \* __init__: sheet and chart the loops of lines 46, 48 are at
  untitled_index,  \* __init__: line 45
  charts,          \* self.charts: <<sheet, chart>> positions in discovery order
  charts_map,      \* self._charts_map: [key, chart] entries in insertion order
  op,              \* the method called last
  arg,             \* its title argument
  wb_state,        \* the evaluated workbook of the call: none, open, closed
  idx,             \* get_figures_from_excel_file: entry the loop of line 153 is at
  figures,         \* get_figures_from_excel_file: figures
  warnings,        \* titles UserMessage.warning was called for, in order
  cur_title,       \* _parse_chart_data: chart_title
  cur_chart,       \* _parse_chart_data: chart (its position in the workbook)
  i,               \* _parse_chart_data: series the loop of line 215 is at
  loc,             \* _parse_chart_data: the other locals
  series_list,     \* _parse_chart_data: the list of line 197
  outcome,         \* how the call ended: none, returned, raised
  error,           \* the exception it raised
  retval           \* the value it returned

config == <<workbook, has_calculation, from_app, n_fields>>
ctor == <<si, cj, untitled_index, charts, charts_map>>
parse == <<cur_title, cur_chart, i, loc, series_list>>
call == <<op, arg, wb_state, idx, figures, warnings, outcome, error, retval>>
vars == <<config, ctor, parse, call, pc>>

\* ------------------------------------------------------------- workbooks
SeqsUpTo(S, n) == UNION {[1..k -> S] : k \in 0..n}

TitleChoices == {None, Some(<<"A">>), Some(<<"A", "B">>)}

QuotedSeries ==
  << Some([kind |-> "numRef", f |-> Ref_Quoted, formatCode |-> "General"]),
     Some([kind |-> "numRef", f |-> Ref_Quoted, formatCode |-> "0.00"]) >>

\* charts of the catalog workbooks: a pie without series under every title,
\* and without title a chart of a type that is not allowed and a line chart
\* with one series
CatalogCharts ==
  { MkChart("pieChart", t, <<>>) : t \in TitleChoices }
  \cup { MkChart("areaChart", None, <<>>), MkChart("lineChart", None, <<QuotedSeries>>) }

\* the charts cs laid on k sheets in order: chart j on sheet a[j]
Sheets(cs, k, a) ==
  [s \in 1..k |->
     LET js == {j \in 1..Len(cs) : a[j] = s}
         first == IF js = {} THEN 1 ELSE CHOOSE j \in js : \A h \in js : j <= h
     IN [n \in 1..Cardinality(js) |-> cs[first + n - 1]]]

NoTables == [input_rows |-> <<>>, output_rows |-> <<>>, values |-> <<>>]

CatalogWorkbooks ==
  { [sheets |-> Sheets(cs, k[1], k[2])] @@ NoTables :
      cs \in SeqsUpTo(CatalogCharts, MaxCharts),
      k \in { <<n, a>> \in UNION { {n} \X [1..MaxCharts -> 1..n] : n \in 1..MaxSheets } :
                \A j \in 1..(MaxCharts - 1) : a[j] <= a[j + 1] } }

ChartTypes == {"lineChart", "scatterChart", "barChart", "pieChart", "areaChart"}

\* one sheet with one chart, its series drawn from SeriesKinds
SeriesWorkbooks ==
  { [sheets |-> << <<MkChart(t, Some(<<"A", "B">>), ks)>> >>] @@ NoTables :
      t \in ChartTypes, ks \in SeqsUpTo(SeriesKinds, MaxSeries) }

ValuesChoices == { <<>>, ("a" :> "1"), ("a" :> "1") @@ ("b" :> "2") }

\* no chart; the rows of the input sheet and of the output sheet
TableWorkbooks ==
  { [sheets |-> << <<>> >>, input_rows |-> [k \in 1..Len(ns) |-> Row(ns[k])],
     output_rows |-> <<>>, values |-> <<>>] : ns \in SeqsUpTo(NameCells, MaxRows) }
  \cup
  { [sheets |-> << <<>> >>, input_rows |-> <<>>,
     output_rows |-> [k \in 1..Len(ns) |-> Row(ns[k])], values |-> v] :
      ns \in SeqsUpTo(NameCells, MaxRows), v \in ValuesChoices }

\* ------------------------------------------------------------ the catalog
MapHas(map, key) == \E k \in 1..Len(map) : map[k].key = key

\* map[key]
MapGet(map, key) == map[CHOOSE k \in 1..Len(map) : map[k].key = key].chart

\* map[key] = chart: a key already there keeps its place and gets the new chart
MapPut(map, key, chart) ==
  IF MapHas(map, key)
  THEN [k \in 1..Len(map) |->
          IF map[k].key = key THEN [key |-> key, chart |-> chart] ELSE map[k]]
  ELSE Append(map, [key |-> key, chart |-> chart])

\* the chart object at a position of the workbook
ChartAt(pos) == workbook.sheets[pos[1]][pos[2]]

\* the chart _parse_chart_data is working on
CurChart == ChartAt(cur_chart[1])

\* lines 49-53: the title a chart is stored under
ChartTitle(chart, untitled) ==
  IF chart.title # None
  THEN JoinRuns(chart.title[1])
  ELSE "Untitled " \o IntToStr(untitled)

\* the counter advanced by every chart, titled or not
NextUntitledEveryChart(chart, untitled) == untitled + 1

\* lines 52-53: the counter after a chart
NextUntitled(chart, untitled) ==
  IF chart.title # None THEN untitled ELSE untitled + 1

IdleCall ==
  /\ op = "" /\ arg = "" /\ wb_state = "none" /\ idx = 0
  /\ figures = <<>> /\ warnings = <<>>
  /\ outcome = "none" /\ error = NoError /\ retval = <<>>

IdleParse ==
  /\ cur_title = "" /\ cur_chart = None /\ i = 0
  /\ loc = InitLocals /\ series_list = <<>>

Init ==
  /\ \/ /\ workbook \in CatalogWorkbooks \cup SeriesWorkbooks
        /\ has_calculation = TRUE /\ from_app = FALSE /\ n_fields = 0
     \/ /\ workbook \in TableWorkbooks
        /\ has_calculation \in BOOLEAN /\ from_app \in BOOLEAN
        /\ n_fields \in {Len(GetInputCells(workbook.input_rows)), MaxRows + 1}
        /\ has_calculation => (~from_app /\ n_fields = MaxRows + 1)
        /\ from_app => n_fields = MaxRows + 1
  /\ pc = "ctor" /\ si = 1 /\ cj = 1 /\ untitled_index = 1
  /\ charts = <<>> /\ charts_map = <<>>
  /\ IdleCall /\ IdleParse

\* __init__, line 46: the sheet has no further chart, on to the next sheet
CtorNextSheet ==
  /\ pc = "ctor" /\ si <= Len(workbook.sheets) /\ cj > Len(workbook.sheets[si])
  /\ si' = si + 1 /\ cj' = 1
  /\ UNCHANGED <<config, untitled_index, charts, charts_map, parse, call, pc>>

\* __init__, lines 48-56: one chart of the sheet
CtorChart ==
  /\ pc = "ctor" /\ si <= Len(workbook.sheets) /\ cj <= Len(workbook.sheets[si])
  /\ LET chart == workbook.sheets[si][cj]
         chart_title == ChartTitle(chart, untitled_index)
     IN /\ untitled_index' = NextUntitled(chart, untitled_index)
        /\ charts_map' = MapPut(charts_map, chart_title, <<si, cj>>)
        /\ charts' = Append(charts, <<si, cj>>)
  /\ cj' = cj + 1
  /\ UNCHANGED <<config, si, parse, call, pc>>

\* __init__ returns
CtorDone ==
  /\ pc = "ctor" /\ si > Len(workbook.sheets)
  /\ pc' = "idle"
  /\ UNCHANGED <<config, ctor, parse, call>>

\* a call begins: nothing is left of the call before
BeginCall(name, title) ==
  /\ pc = "idle"
  /\ op' = name /\ arg' = title
  /\ figures' = <<>> /\ warnings' = <<>>
  /\ cur_title' = "" /\ cur_chart' = None /\ i' = 0
  /\ loc' = InitLocals /\ series_list' = <<>>

\* the call ends with an exception
Raised(e) == outcome' = "raised" /\ error' = e /\ retval' = <<>> /\ pc' = "idle"

\* the call ends with a value
Returned(v) == outcome' = "returned" /\ error' = NoError /\ retval' = v /\ pc' = "idle"

Running == outcome' = "none" /\ error' = NoError /\ retval' = <<>>

Evaluated ==
  EvaluatedSpreadsheet(has_calculation, from_app, workbook.input_rows, n_fields)

\* get_input_cells
GetInputCellsCall ==
  /\ BeginCall("get_input_cells", "")
  /\ wb_state' = "none" /\ idx' = 0
  /\ Returned(GetInputCells(workbook.input_rows))
  /\ UNCHANGED <<config, ctor>>

\* get_outputs
GetOutputsCall ==
  /\ BeginCall("get_outputs", "")
  /\ idx' = 0
  /\ IF Evaluated # NoError
     THEN wb_state' = "none" /\ Raised(Evaluated)
     ELSE /\ wb_state' = "open"
          /\ LET r == Outputs(workbook.output_rows, workbook.values)
             IN IF r.err # NoError THEN Raised(r.err) ELSE Returned(r.outputs)
  /\ UNCHANGED <<config, ctor>>

\* get_figures_from_excel_file, lines 150-152
GetFiguresStart ==
  /\ BeginCall("get_figures_from_excel_file", "")
  /\ IF Evaluated # NoError
     THEN wb_state' = "none" /\ Raised(Evaluated) /\ idx' = 0
     ELSE wb_state' = "open" /\ Running /\ pc' = "figures_loop" /\ idx' = 1
  /\ UNCHANGED <<config, ctor>>

\* _parse_chart_data, lines 194-214, for a title of the catalog: the chart,
\* the type check and the locals the series loop starts from
EnterParse(title) ==
  LET chart == ChartAt(MapGet(charts_map, title))
  IN /\ cur_title' = title /\ cur_chart' = Some(MapGet(charts_map, title))
     /\ series_list' = <<>> /\ loc' = InitLocals
     /\ IF InList(chart.tagname, ALLOWED_FIGURE_TYPES)
        THEN i' = 1 /\ warnings' = warnings
        ELSE i' = 0 /\ warnings' = Append(warnings, title)

Allowed(title) ==
  InList(ChartAt(MapGet(charts_map, title)).tagname, ALLOWED_FIGURE_TYPES)

\* get_figures_from_excel_file, lines 153-156 and 160-161: the next title of
\* the catalog, or the end of the loop
FiguresLoop ==
  /\ pc = "figures_loop"
  /\ IF idx > Len(charts_map)
     THEN /\ wb_state' = "closed"
          /\ Returned(figures)
          /\ UNCHANGED <<idx, warnings, parse>>
     ELSE /\ EnterParse(charts_map[idx].key)
          /\ IF Allowed(charts_map[idx].key)
             THEN pc' = "series_loop" /\ idx' = idx
             ELSE pc' = "figures_loop" /\ idx' = idx + 1
          /\ UNCHANGED <<wb_state, outcome, error, retval>>
  /\ UNCHANGED <<config, ctor, op, arg, figures>>

\* _parse_chart_data, lines 215-295: one series of the chart
ParseSeriesStep ==
  /\ pc = "series_loop" /\ i <= Len(CurChart.series)
  /\ LET r == ParseSeries(CurChart.tagname, CurChart.series[i],
                          loc, series_list)
     IN /\ loc' = r.loc /\ series_list' = r.series_list
        /\ IF r.err # NoError
           THEN Raised(r.err) /\ i' = i
           ELSE i' = i + 1 /\ UNCHANGED <<outcome, error, retval, pc>>
  /\ UNCHANGED <<config, ctor, op, arg, wb_state, idx, figures, warnings,
                 cur_title, cur_chart>>

\* _parse_chart_data, lines 297-305, and what its caller does with the
\* chart data: lines 157-158, or lines 167-172
ParseReturn ==
  /\ pc = "series_loop" /\ i > Len(CurChart.series)
  /\ LET chart_data == ChartData(cur_title, CurChart, series_list)
         f == CreatePlotlyFigure(chart_data)
     IN IF op = "get_figures_from_excel_file"
        THEN IF f.err # NoError
             THEN Raised(f.err) /\ UNCHANGED <<wb_state, idx, figures>>
             ELSE /\ figures' = Append(figures, chart_data @@ [fig |-> f.fig[1]])
                  /\ idx' = idx + 1 /\ pc' = "figures_loop"
                  /\ UNCHANGED <<wb_state, outcome, error, retval>>
        ELSE /\ wb_state' = "closed"
             /\ IF f.err # NoError THEN Raised(f.err) ELSE Returned(f.fig[1])
             /\ UNCHANGED <<idx, figures>>
  /\ UNCHANGED <<config, ctor, op, arg, warnings, parse>>

TitleArgs == {"AB", "Untitled 1", "Zed"}

\* get_plotly_figure_by_title, line 165
GetByTitleStart ==
  \E title \in TitleArgs :
    /\ BeginCall("get_plotly_figure_by_title", title)
    /\ idx' = 0
    /\ IF Evaluated # NoError
       THEN wb_state' = "none" /\ Raised(Evaluated)
       ELSE wb_state' = "open" /\ Running /\ pc' = "by_title_parse"
    /\ UNCHANGED <<config, ctor>>

\* get_plotly_figure_by_title, line 166 up to the series loop, and lines
\* 167-170 when _parse_chart_data returns None
ByTitleParse ==
  /\ pc = "by_title_parse"
  /\ IF ~MapHas(charts_map, arg)
     THEN \* line 194: self._charts_map[chart_title]
          /\ Raised(Raise("KeyError", 194))
          /\ UNCHANGED <<wb_state, warnings, parse>>
     ELSE /\ EnterParse(arg)
          /\ IF Allowed(arg)
             THEN pc' = "series_loop" /\ UNCHANGED <<wb_state, outcome, error, retval>>
             ELSE /\ wb_state' = "closed"
                  /\ Raised(RaiseMsg("UserError", 170,
                                     "No figure found with title: " \o arg))
  /\ UNCHANGED <<config, ctor, op, arg, idx, figures>>

Next ==
  \/ CtorNextSheet
  \/ CtorChart
  \/ CtorDone
  \/ GetInputCellsCall
  \/ GetOutputsCall
  \/ GetFiguresStart
  \/ FiguresLoop
  \/ ParseSeriesStep
  \/ ParseReturn
  \/ GetByTitleStart
  \/ ByTitleParse

Spec == Init /\ [][Next]_vars

\* ---------------------------------------------------------------- claims
ParseLines == 194..305
SeriesLoopLines == 215..295

\* the call named `name` has ended
Ended(name) == pc = "idle" /\ op = name /\ outcome # "none"

TypeAllowed(chart) ==
  chart.tagname \in {"lineChart", "scatterChart", "barChart", "pieChart"}

\* the category side and the value side of a series of a chart
CatSide(chart, k) ==
  IF chart.tagname = "scatterChart" THEN chart.series[k].xVal ELSE chart.series[k].cat
ValSide(chart, k) ==
  IF chart.tagname = "scatterChart" THEN chart.series[k].yVal ELSE chart.series[k].val

\* the cells a reference names can be read from the evaluated workbook
CatResolvable(ref) ==
  ref # None /\
  Dereference(SheetNameOf(ref[1].f), ResolveCatRange(ref[1].f), 260).err = NoError
ValResolvable(ref) ==
  ref # None /\
  Dereference(SheetNameOf(ref[1].f), ResolveValRange(ref[1].f), 282).err = NoError

NamesMissingSheet(ref) == ref # None /\ SheetNameOf(ref[1].f) \notin WbSheetNames

\* _parse_chart_data ended with an exception of its own
ParseRaised == outcome = "raised" /\ error.line \in ParseLines

\* C1 (as claimed): for a chart of an allowed type whose series all have
\* resolvable references, _parse_chart_data does not raise, and after k
\* series its list holds k records, the j-th with the values of the j-th
\* series; so it returns N records for N series.
C1_OneRecordPerSeries ==
  (cur_chart # None /\ TypeAllowed(CurChart)
     /\ \A k \in 1..Len(CurChart.series) :
          CatResolvable(CatSide(CurChart, k)) /\ ValResolvable(ValSide(CurChart, k)))
  => /\ ~ParseRaised
     /\ Len(series_list) = i - 1
     /\ \A j \in 1..Len(series_list) :
          series_list[j].value_axis_data =
            Dereference(SheetNameOf(ValSide(CurChart, j)[1].f),
                        ResolveValRange(ValSide(CurChart, j)[1].f), 282).data

\* C2 (as claimed): get_plotly_figure_by_title with a title that is no key
\* of the catalog ends with the UserError "No figure found with title:
\* <title>".
C2_UnknownTitleIsUserError ==
  (Ended("get_plotly_figure_by_title") /\ wb_state # "none"
     /\ ~MapHas(charts_map, arg))
  => /\ outcome = "raised"
     /\ error.type = "UserError"
     /\ error.arg = "No figure found with title: " \o arg

RECURSIVE AllowedTitles(_, _)
\* the keys of the catalog whose chart has an allowed type, in catalog order
AllowedTitles(map, k) ==
  IF k > Len(map) THEN <<>>
  ELSE (IF TypeAllowed(ChartAt(map[k].chart)) THEN <<map[k].key>> ELSE <<>>)
       \o AllowedTitles(map, k + 1)

C3_CatalogWellFormed ==
  \A k \in 1..Len(charts_map) :
    LET chart == ChartAt(charts_map[k].chart)
    IN TypeAllowed(chart) =>
         \A n \in 1..Len(chart.series) :
           CatResolvable(CatSide(chart, n)) /\ ValResolvable(ValSide(chart, n))

\* C3 (as claimed): one call of get_figures_from_excel_file over a catalog
\* that has a chart of a type not allowed before a chart of an allowed
\* type (every chart of an allowed type with at least one series, all
\* references resolvable) returns the charts of an allowed type, in catalog
\* order and without the others, and warns once for each of the others.
C3_UnsupportedSkippedRestReturned ==
  (Ended("get_figures_from_excel_file") /\ wb_state # "none"
     /\ C3_CatalogWellFormed
     /\ \E k, m \in 1..Len(charts_map) :
          /\ k < m
          /\ ~TypeAllowed(ChartAt(charts_map[k].chart))
          /\ TypeAllowed(ChartAt(charts_map[m].chart))
          /\ ChartAt(charts_map[m].chart).series # <<>>)
  => /\ outcome = "returned"
     /\ [k \in 1..Len(retval) |-> retval[k].chart_title] = AllowedTitles(charts_map, 1)
     /\ Len(warnings) = Len(charts_map) - Len(AllowedTitles(charts_map, 1))

\* C4 (as claimed): when get_figures_from_excel_file or
\* get_plotly_figure_by_title ends, by a return or by an exception, the
\* evaluated workbook it obtained is closed.
C4_WorkbookClosedAtEnd ==
  ((Ended("get_figures_from_excel_file") \/ Ended("get_plotly_figure_by_title"))
     /\ wb_state # "none")
  => wb_state = "closed"

RECURSIVE C5_Concat(_, _)
\* runs[1] .. runs[n] written one after the other
C5_Concat(runs, n) ==
  IF n = 0 THEN "" ELSE C5_Concat(runs, n - 1) \o runs[n]

\* the key the claim gives the n-th chart in discovery order
C5_Key(n) ==
  LET chart == ChartAt(charts[n])
  IN IF chart.title # None
     THEN C5_Concat(chart.title[1], Len(chart.title[1]))
     ELSE "Untitled " \o
          IntToStr(Cardinality({m \in 1..n : ChartAt(charts[m]).title = None}))

\* C5 (as claimed): after __init__, every chart of the workbook is in the
\* catalog under its key: the concatenation of its title runs, or
\* "Untitled k" for the k-th chart without title in discovery order.
C5_EveryChartUnderItsKey ==
  pc # "ctor" =>
    \A n \in 1..Len(charts) :
      MapHas(charts_map, C5_Key(n)) /\ MapGet(charts_map, C5_Key(n)) = charts[n]

\* C5 (amended): after __init__, the keys of the catalog are the keys of
\* the charts (the concatenation of the title runs, or "Untitled k" for the
\* k-th chart without title, k counted from 1 over all sheets and advanced
\* by untitled charts only), and the catalog holds under each key the last
\* chart in discovery order with that key.
C5_LastChartUnderEachKey ==
  pc # "ctor" =>
    /\ \A n \in 1..Len(charts) :
         /\ MapHas(charts_map, C5_Key(n))
         /\ MapGet(charts_map, C5_Key(n)) =
              charts[CHOOSE m \in n..Len(charts) :
                       /\ C5_Key(m) = C5_Key(n)
                       /\ \A h \in (m + 1)..Len(charts) : C5_Key(h) # C5_Key(n)]
    /\ \A k \in 1..Len(charts_map) :
         \E n \in 1..Len(charts) : charts_map[k].key = C5_Key(n)

\* C5 witness: the catalog of two sheets, a titled chart on the first and
\* an untitled chart on the second, which is "Untitled 1"
C5_Witness ==
  /\ pc = "idle" /\ Len(workbook.sheets) = 2 /\ Len(charts) = 2
  /\ charts[1][1] = 1 /\ charts[2][1] = 2
  /\ ChartAt(charts[1]).title = Some(<<"A", "B">>)
  /\ ChartAt(charts[2]).title = None
  /\ MapHas(charts_map, "AB") /\ MapHas(charts_map, "Untitled 1")

\* the sheet row (1 = row 2 of the sheet) of the j-th row with a name
C6_RowOf(rows, j) ==
  CHOOSE k \in 1..Len(rows) :
    /\ Truthy(rows[k].name)
    /\ Cardinality({h \in 1..k : Truthy(rows[h].name)}) = j

\* C6 (as claimed): the j-th row get_input_cells (get_outputs) returns has
\* the key "input_" ("output_") followed by j - 1.
C6_KeysCountIncludedRows ==
  /\ (Ended("get_input_cells") /\ outcome = "returned") =>
       \A j \in 1..Len(retval) : retval[j].key = "input_" \o IntToStr(j - 1)
  /\ (Ended("get_outputs") /\ outcome = "returned") =>
       \A j \in 1..Len(retval) : retval[j].key = "output_" \o IntToStr(j - 1)

\* C6 (amended): the j-th row get_input_cells (get_outputs) returns is the
\* j-th row of the sheet with a name, and its key is "input_" ("output_")
\* followed by the 0-based index of that row among all the rows of the
\* sheet from row 2 on, the rows without name counted too.
C6_KeysCountSheetRows ==
  /\ (Ended("get_input_cells") /\ outcome = "returned") =>
       /\ Len(retval) = Cardinality({k \in 1..Len(workbook.input_rows) :
                                       Truthy(workbook.input_rows[k].name)})
       /\ \A j \in 1..Len(retval) :
            LET k == C6_RowOf(workbook.input_rows, j)
            IN /\ retval[j].name = workbook.input_rows[k].name[1]
               /\ retval[j].key = "input_" \o IntToStr(k - 1)
  /\ (Ended("get_outputs") /\ outcome = "returned") =>
       \A j \in 1..Len(retval) :
         LET k == C6_RowOf(workbook.output_rows, j)
         IN /\ retval[j].name = workbook.output_rows[k].name[1]
            /\ retval[j].key = "output_" \o IntToStr(k - 1)

\* C6 witness: get_input_cells returned two rows of a sheet whose first row
\* has no name and whose second row has the empty name between them
C6_Witness ==
  /\ Ended("get_input_cells") /\ outcome = "returned"
  /\ Len(workbook.input_rows) = 3
  /\ ~Truthy(workbook.input_rows[2].name)
  /\ Len(retval) = 2
  /\ retval[2].key = "input_2"

\* C7 (as claimed): in a line, bar or pie chart whose first series has a
\* resolvable category reference and whose second series has none (the
\* value references resolvable), the second series is processed and gets
\* the category values of the first.
C7_CategoryCarriedForward ==
  (cur_chart # None
     /\ CurChart.tagname \in {"lineChart", "barChart", "pieChart"}
     /\ Len(CurChart.series) = 2
     /\ CatResolvable(CurChart.series[1].cat)
     /\ CurChart.series[2].cat = None
     /\ \A k \in 1..2 : ValResolvable(CurChart.series[k].val))
  => /\ ParseRaised => i > 2
     /\ i > 2 =>
          /\ Len(series_list) = 2
          /\ series_list[2].category_axis_data =
               Dereference(SheetNameOf(CurChart.series[1].cat[1].f),
                           ResolveCatRange(CurChart.series[1].cat[1].f), 260).data

\* C8 (as claimed): once the category range (the value range) of the
\* reference "Sheet1!$A$1:$A$3,Sheet1!$A$5:$A$7" is resolved, the sheet is
\* "Sheet1" and the range is "A1:A7".
C8_UnionIsOneSpan ==
  /\ (loc.input_cat_range = Ref_Union /\ loc.chart_cat_range # <<>>) =>
       /\ loc.chart_cat_range = Str_A1A7
       /\ SheetNameOf(loc.input_cat_range) = Str_Sheet1
  /\ (loc.input_val_range = Ref_Union /\ loc.chart_val_range # <<>>) =>
       /\ loc.chart_val_range = Str_A1A7
       /\ loc.chart_sheet_name = Str_Sheet1

\* C9 (as claimed): the first series of a chart having no category
\* reference does not make the extraction fail at the category lookup of
\* line 260, whereas a category reference that names a sheet missing from
\* the evaluated workbook does.
C9_AbsentCategoryIsValid ==
  (cur_chart # None /\ TypeAllowed(CurChart) /\ CurChart.series # <<>>
     /\ ValSide(CurChart, 1) # None /\ pc # "series_loop")
  => /\ CatSide(CurChart, 1) = None =>
          ~(outcome = "raised" /\ error.line = 260)
     /\ NamesMissingSheet(CatSide(CurChart, 1)) =>
          (outcome = "raised" /\ error = Raise("KeyError", 260))

\* a series of the chart has no value reference, or one that names a sheet
\* missing from the evaluated workbook
C10_BadValueReference(chart) ==
  \E k \in 1..Len(chart.series) :
    ValSide(chart, k) = None \/ NamesMissingSheet(ValSide(chart, k))

\* C10 (as claimed): when _parse_chart_data has ended for a chart with such
\* a series, it has raised an error and the call that made it has ended
\* with that error, without a value.
C10_BadValueRaises ==
  (cur_chart # None /\ C10_BadValueReference(CurChart) /\ pc # "series_loop")
  => /\ outcome = "raised" /\ error.line \in SeriesLoopLines
     /\ retval = <<>>
     /\ \A k \in 1..Len(figures) : figures[k].chart_title # cur_title

\* C10 (amended): the same for a chart of an allowed type; for a chart of
\* another type _parse_chart_data warns and returns None without raising.
\* When the series is the first of the chart, the error is the
\* AttributeError of reading the absent value reference (line 224 or 236),
\* or, the category reference being resolvable, the KeyError of the value
\* lookup of line 282.
C10_BadValueRaisesIfAllowed ==
  (cur_chart # None /\ TypeAllowed(CurChart)
     /\ C10_BadValueReference(CurChart) /\ pc # "series_loop")
  => /\ outcome = "raised" /\ error.line \in SeriesLoopLines
     /\ retval = <<>>
     /\ \A k \in 1..Len(figures) : figures[k].chart_title # cur_title
     /\ ValSide(CurChart, 1) = None =>
          (error.type = "AttributeError" /\ error.line \in {224, 236})
     /\ (NamesMissingSheet(ValSide(CurChart, 1))
           /\ CatResolvable(CatSide(CurChart, 1))) =>
          error = Raise("KeyError", 282)

\* C10 witness: get_figures_from_excel_file ended with the KeyError of the
\* value lookup of a series whose value reference names a missing sheet
C10_Witness ==
  /\ Ended("get_figures_from_excel_file")
  /\ cur_chart # None /\ TypeAllowed(CurChart)
  /\ CurChart.series # <<>>
  /\ NamesMissingSheet(ValSide(CurChart, 1))
  /\ outcome = "raised" /\ error = Raise("KeyError", 282)

====
